---- MODULE Spec2Model ----
(***************************************************************************)
(* Model of the agent coordination substrate of AFAC2025:                  *)
(*   agents/base/state.py     AgentState                                   *)
(*   agents/base/message.py   MessageType, Message, MessageQueue           *)
(*   agents/base/protocol.py  A2AProtocol                                  *)
(*   agents/base/agent.py     BaseAgent                                    *)
(*   agents/research/agent.py ResearchAgent                                *)
(*   agents/{analysis,writing,review}/agent.py                             *)
(*   agents/orchestrator.py   Orchestrator.generate_report                 *)
(*                                                                         *)
(* One agent object is modelled; its class is chosen when it is built.     *)
(* Python values are modelled as follows: a message content is a flat      *)
(* sequence of strings, an exception is a record [type, arg], a dict task  *)
(* is the set of its keys together with the value stored under "type".     *)
(***************************************************************************)
EXTENDS Integers, Sequences, FiniteSets, TLC

\* ------------------------------------------------------------------ bounds
\* messages an agent may create in one behaviour of Spec (caps Message.id)
MaxSends == 1
\* messages pushed into the queue in one behaviour of QueueSpec
MaxPush == 3
\* messages an agent may create in one behaviour of ExchangeSpec
MaxExchange == 3
\* messages the peer may create in one behaviour of ExchangeSpec
MaxPeerSends == 1
\* largest absolute value of a price or volume handed to the market validation
MaxNum == 1
\* messages pushed into the queue in one behaviour of FifoSpec
MaxFifo == 3

\* ------------------------------------------------------------ enumerations
AgentState == {"IDLE", "RUNNING", "ERROR", "COMPLETED"}

MessageType == {"TASK", "REQUEST", "RESULT", "ERROR", "COMMAND", "STATUS", "RESPONSE"}

\* AgentState.<member>.value
StateValue(s) ==
    CASE s = "IDLE" -> "idle"
      [] s = "RUNNING" -> "running"
      [] s = "ERROR" -> "error"
      [] s = "COMPLETED" -> "completed"

\* the concrete classes; "BaseAgent" stands for a subclass that overrides
\* nothing but the two abstract methods
AgentKinds == {"BaseAgent", "ResearchAgent", "AnalysisAgent", "WritingAgent", "ReviewAgent"}

\* default value of the constructor's name argument
DefaultName(k) == k

\* the agents that may talk to the agent; one of them does in a behaviour
Senders == {"test_sender", "analysis_agent"}

\* message types a caller may put into message.type (the tests also pass a
\* value outside the enumeration)
InputTypes == MessageType \cup {"UNSUPPORTED"}

\* ---------------------------------------------------------------- payloads
AllKeys == {"type", "target", "timeframe", "data", "content", "analysis_results"}

ReportTypes == {"company", "industry", "macro"}

\* values found under the key "type": the three report types and the task
\* type "market" that the tests use
TypeValues == ReportTypes \cup {"market"}

\* a payload: a dict (its keys, the value of "type"), a str or None
Payloads ==
    { [shape |-> "dict", keys |-> K, type |-> "-"] : K \in SUBSET (AllKeys \ {"type"}) }
    \cup { [shape |-> "dict", keys |-> K \cup {"type"}, type |-> t] :
              K \in SUBSET (AllKeys \ {"type"}), t \in TypeValues }
    \cup { [shape |-> "str", keys |-> {}, type |-> "-"],
           [shape |-> "None", keys |-> {}, type |-> "-"] }

\* the keys each class requires of its payload, in the order it checks them
required_fields(k) ==
    CASE k = "ResearchAgent" -> <<"type", "target", "timeframe">>
      [] k = "AnalysisAgent" -> <<"type", "target", "timeframe", "data">>
      [] k = "WritingAgent" -> <<"type", "target", "analysis_results">>
      [] k = "ReviewAgent" -> <<"type", "target", "content", "analysis_results">>
      [] OTHER -> <<>>

\* the payloads that differ for the class k: the keys k never looks at are
\* left out
PayloadsOf(k) ==
    { p \in Payloads : p.keys \subseteq {required_fields(k)[i] : i \in 1..Len(required_fields(k))} }

\* --------------------------------------------------------------- exceptions
NoExc == [type |-> "none", arg |-> <<>>]

Exc(t, a) == [type |-> t, arg |-> a]

\* faulty variant of Str: the message of the exception for every type, so
\* that the quotes of a KeyError are lost
Str_ArgOnly(e) == e.arg

\* str(e): the message of the exception, except that str(KeyError(k)) is the
\* repr of the key, i.e. the key between quotes
Str(e) == IF e.type = "KeyError" THEN <<"'">> \o e.arg \o <<"'">> ELSE e.arg

\* outcome of a call: it returns value, or raises exc
Returned(v) == [raised |-> FALSE, value |-> v, exc |-> NoExc]

Raised(e) == [raised |-> TRUE, value |-> <<>>, exc |-> e]

NotCalled == [raised |-> FALSE, value |-> <<"not called">>, exc |-> NoExc]

\* task[key] / data[key] on a payload: None when it succeeds
Subscript(p, key) ==
    IF p.shape # "dict" THEN Exc("TypeError", <<"not subscriptable", p.shape>>)
    ELSE IF key \notin p.keys THEN Exc("KeyError", <<key>>)
    ELSE NoExc

\* first exception of a sequence of evaluations, NoExc when there is none
RECURSIVE FirstExc(_)
FirstExc(es) ==
    IF es = <<>> THEN NoExc
    ELSE IF Head(es) # NoExc THEN Head(es)
    ELSE FirstExc(Tail(es))

\* ----------------------------------------------------- payload validation
\* `field not in task` for one field
MissingField(p, field) ==
    IF p.shape = "None" THEN Exc("TypeError", <<"not iterable", "None">>)
    ELSE IF p.shape = "str" \/ field \notin p.keys
         THEN Exc("ValueError", <<"missing field", field>>)
    ELSE NoExc

\* _validate_task / _validate_data: the exception raised, NoExc when valid
validate_task(k, p) ==
    LET fs == required_fields(k)
        miss == FirstExc([i \in 1..Len(fs) |-> MissingField(p, fs[i])])
    IN  IF miss # NoExc THEN miss
        ELSE IF p.type \notin ReportTypes
             THEN Exc("ValueError", <<"unsupported report type", p.type>>)
        ELSE NoExc

\* ------------------------------------------------------------------ execute
Collectors == {"market", "financial", "news"}

\* the collectors a report type calls, in call order
CollectPlan(t) ==
    CASE t = "company" -> <<"market", "financial", "news">>
      [] t = "industry" -> <<"market", "news">>
      [] OTHER -> <<"news">>

\* the key of the result under which a collector's data is returned
DataKey(c) ==
    CASE c = "market" -> "market_data"
      [] c = "financial" -> "financial_data"
      [] OTHER -> "news_data"

\* what the world outside the agent does during one call: the collector
\* that fails (if any), whether the language-model client (or the body of an abstract
\* execute) fails, and what the body of an abstract _validate_impl does
Envs == [fail : Collectors \cup {"none"}, ext : {"ok", "raise"}, impl : {"True", "False", "raise"}]

\* the part of Envs the class k can observe
EnvsOf(k) ==
    { env \in Envs :
        /\ (k # "ResearchAgent" => env.fail = "none")
        /\ (k = "ResearchAgent" => env.ext = "ok")
        /\ (k # "BaseAgent" => env.impl = "True") }

\* collector.collect(...) for one collector
Collect(c, env) ==
    IF c = env.fail THEN Exc("Exception", <<"Error collecting data">>) ELSE NoExc

\* _collect_company_data / _collect_industry_data / _collect_macro_data
collect_data(t, env) ==
    LET plan == CollectPlan(t)
        e == FirstExc([i \in 1..Len(plan) |-> Collect(plan[i], env)])
    IN  IF e # NoExc THEN Raised(e)
        ELSE Returned(<<"collected", t>> \o [i \in 1..Len(plan) |-> DataKey(plan[i])])

\* ResearchAgent.execute(task)
ResearchExecute(task, env) ==
    LET e == FirstExc(<<Subscript(task, "type"), validate_task("ResearchAgent", task)>>)
    IN  IF e # NoExc THEN Raised(e) ELSE collect_data(task.type, env)

\* openai_client.analyze / write_report / review_report
External(what, t, env) ==
    IF env.ext = "raise" THEN Raised(Exc("Exception", <<what, "failed">>))
    ELSE Returned(<<what, t>>)

\* AnalysisAgent.execute(data)
AnalysisExecute(data, env) ==
    LET e == FirstExc(<<Subscript(data, "type"), validate_task("AnalysisAgent", data)>>)
    IN  IF e # NoExc THEN Raised(e) ELSE External("analysis", data.type, env)

\* WritingAgent.execute(data)
WritingExecute(data, env) ==
    LET e == FirstExc(<<Subscript(data, "type"), Subscript(data, "target"),
                        Subscript(data, "analysis_results")>>)
    IN  IF e # NoExc THEN Raised(e) ELSE External("report", data.type, env)

\* ReviewAgent.execute(data)
ReviewExecute(data, env) ==
    LET e == FirstExc(<<Subscript(data, "type"), Subscript(data, "target"),
                        Subscript(data, "content"), Subscript(data, "analysis_results")>>)
    IN  IF e # NoExc THEN Raised(e) ELSE External("review", data.type, env)

\* BaseAgent.execute is abstract: a subclass body returns or raises
AbstractExecute(data, env) == External("result", data.shape, env)

\* self.execute(payload), by the class of self
Execute(k, payload, env) ==
    CASE k = "ResearchAgent" -> ResearchExecute(payload, env)
      [] k = "AnalysisAgent" -> AnalysisExecute(payload, env)
      [] k = "WritingAgent" -> WritingExecute(payload, env)
      [] k = "ReviewAgent" -> ReviewExecute(payload, env)
      [] OTHER -> AbstractExecute(payload, env)

\* self._validate_impl(data), by the class of self: try _validate_task,
\* return True; except ValueError: return False.  For the abstract method
\* the body returns True, returns False or raises.
ValidateImpl(k, data, env) ==
    IF k = "BaseAgent"
    THEN IF env.impl = "raise" THEN Raised(Exc("ValueError", <<"invalid">>))
         ELSE Returned(<<env.impl = "True">>)
    ELSE LET e == validate_task(k, data)
         IN  IF e = NoExc THEN Returned(<<TRUE>>)
             ELSE IF e.type = "ValueError" THEN Returned(<<FALSE>>)
             ELSE Raised(e)

\* ------------------------------------------------------------ MessageQueue
None == <<>>

\* Message(type, sender, receiver, content); id stands for the fresh
\* (id, timestamp) pair of the dataclass
Message(id, type, sender, receiver, content) ==
    [id |-> id, type |-> type, sender |-> sender, receiver |-> receiver, content |-> content]

\* MessageQueue.push
push(q, message) == Append(q, message)

\* MessageQueue.send
send(q, message) == push(q, message)

\* faulty variant of FirstFrom: the index of the last message of q whose
\* sender is agent_id
FirstFrom_Last(q, agent_id, i) ==
    LET is == {j \in i..Len(q) : q[j].sender = agent_id}
    IN  IF is = {} THEN 0 ELSE CHOOSE j \in is : \A l \in is : l <= j

\* index of the first message of q whose sender is agent_id, 0 if none
RECURSIVE FirstFrom(_, _, _)
FirstFrom(q, agent_id, i) ==
    IF i > Len(q) THEN 0
    ELSE IF q[i].sender = agent_id THEN i
    ELSE FirstFrom(q, agent_id, i + 1)

\* faulty variant of RemoveAt: the messages before the i-th go as well
RemoveAt_Prefix(q, i) == SubSeq(q, i + 1, Len(q))

\* q without its i-th element
RemoveAt(q, i) == SubSeq(q, 1, i - 1) \o SubSeq(q, i + 1, Len(q))

\* MessageQueue.receive: [ret, q], ret = <<message>> or None
receive(q, agent_id) ==
    LET i == FirstFrom(q, agent_id, 1)
    IN  IF i = 0 THEN [ret |-> None, q |-> q]
        ELSE [ret |-> <<q[i]>>, q |-> RemoveAt(q, i)]

\* ------------------------------------------------------------------- state
VARIABLES
    kind,              \* the class of the agent object
    peer,              \* the agent that talks to this one
    state,             \* agent.state
    messages,          \* agent._protocol._message_queue.messages
    nextId,            \* number of Message objects created so far, plus one
    message_handlers,  \* agent._protocol._message_handlers
    state_handlers,    \* agent._protocol._state_handlers
    last,              \* the last call made on the agent and its outcome
    sent,              \* the messages the last call sent, in order
    calls,             \* the state handlers the last call invoked, in order
    pushed,            \* every message pushed into the queue so far, in order
    received,          \* every message receive() returned so far, in order
    peer_messages,     \* the peer agent's own _protocol._message_queue.messages
    peer_received,     \* every message that reached the peer so far, in order
    handled,           \* the requests handled so far and the replies to each
    orch,              \* the call of Orchestrator.generate_report in progress
    market,            \* the last call of MarketDataCollector.validate: data and result
    ref                \* a reference FIFO sequence kept beside the queue

vars == <<kind, peer, state, messages, nextId, message_handlers, state_handlers,
          last, sent, calls, pushed, received, peer_messages, peer_received, handled,
          orch, market, ref>>

\* agent.name
name == DefaultName(kind)

\* ---------------------------------------------------------- input messages
\* the actions _handle_request_message knows
RequestActions == {"get_data", "get_status"}

\* the actions _handle_command_message knows
CommandActions == {"cleanup", "reset"}

EmptyDict == [shape |-> "dict", keys |-> {}, type |-> "-"]

\* the content of a message handed to the agent: the content itself (p), what
\* content.get("action") finds ("None" where the handler does not look for it) and
\* content["task"] (<<>> when the key is absent)
Content(p, action, task) == [p |-> p, action |-> action, task |-> task]

\* the task payloads sent in messages: the complete dict with each value of
\* "type", the dicts that lack "target" or "type", and None
TaskPayloads(k) ==
    LET full == {required_fields(k)[i] : i \in 1..Len(required_fields(k))}
    IN  { p \in PayloadsOf(k) :
            \/ p.shape = "None"
            \/ p.shape = "dict" /\ p.keys = full
            \/ p.shape = "dict" /\ p.keys = full \ {"target"} /\ p.type = "company"
            \/ p.shape = "dict" /\ p.keys = full \ {"type"} }

StrPayload == [shape |-> "str", keys |-> {}, type |-> "-"]

ContentsOf(k, t) ==
    CASE t = "TASK" -> { Content(p, "None", <<>>) : p \in TaskPayloads(k) }
      [] t = "REQUEST" ->
            { Content(EmptyDict, a, <<>>) : a \in RequestActions \cup {"invalid_action"} }
            \cup { Content(EmptyDict, "get_data", <<p>>) : p \in TaskPayloads(k) }
            \cup { Content(StrPayload, "None", <<>>) }
      [] t = "COMMAND" ->
            { Content(EmptyDict, a, <<>>) : a \in CommandActions \cup {"invalid_action"} }
            \cup { Content(StrPayload, "None", <<>>) }
      [] OTHER -> { Content(StrPayload, "None", <<>>) }

\* the environments that differ for a message: the ones of its class when
\* the message reaches execute, one otherwise
EnvsFor(k, message) ==
    IF message.type = "TASK" \/ (message.type = "REQUEST" /\ message.content.task # <<>>)
    THEN EnvsOf(k)
    ELSE { [fail |-> "none", ext |-> "ok", impl |-> "True"] }

\* the messages handed to an agent of class k
InputMessages(k) ==
    UNION { { [type |-> t, sender |-> peer, content |-> c] : c \in ContentsOf(k, t) } :
            t \in InputTypes }

\* message.content.get("action"): the exception raised, NoExc when it returns
GetAction(message) ==
    IF message.content.p.shape # "dict"
    THEN Exc("AttributeError", <<"no attribute get", message.content.p.shape>>)
    ELSE NoExc

\* message.content["task"]: the exception raised, NoExc when it returns
GetTask(message) ==
    IF message.content.task = <<>> THEN Exc("KeyError", <<"task">>) ELSE NoExc

\* --------------------------------------------------- the agent, as a value
\* the agent at the start of a call: its fields, and what the call has done
\* so far (messages sent, state handlers invoked, message handler entered,
\* outcome of the execute or _validate_impl it made, exception that left it)
Self ==
    [state |-> state, messages |-> messages, nextId |-> nextId,
     sent |-> <<>>, calls |-> <<>>, handler |-> "none", exec |-> NotCalled,
     raised |-> NoExc]

\* an exception that no except clause catches leaves the call
Propagate(a, e) == [a EXCEPT !.raised = e]

\* faulty variant of handle_state_change: the handler of the state that is
\* left is invoked
handle_state_change_Old(a, old_state, new_state) ==
    LET handler == state_handlers[old_state]
    IN  IF handler # "none"
        THEN [a EXCEPT !.calls = Append(@, [handler |-> handler, old |-> old_state,
                                            new |-> new_state, at |-> a.state])]
        ELSE a

\* A2AProtocol.handle_state_change
handle_state_change(a, old_state, new_state) ==
    LET handler == state_handlers[new_state]
    IN  IF handler # "none"
        THEN [a EXCEPT !.calls = Append(@, [handler |-> handler, old |-> old_state,
                                            new |-> new_state, at |-> a.state])]
        ELSE a

\* faulty variant of update_state: an agent in ERROR must be cleaned up
\* before it can run again
update_state_Checked(a, new_state) ==
    IF a.state = "ERROR" /\ new_state = "RUNNING" THEN a
    ELSE handle_state_change([a EXCEPT !.state = new_state], a.state, new_state)

\* BaseAgent.update_state
update_state(a, new_state) ==
    LET old_state == a.state
    IN  handle_state_change([a EXCEPT !.state = new_state], old_state, new_state)

\* faulty variant of log_error: the error is logged and nothing else
log_error_LogOnly(a) == a

\* BaseAgent.log_error
log_error(a) == update_state(a, "ERROR")

\* faulty variant of send_message: the message is stamped with the name of
\* the receiver
send_message_AsReceiver(a, receiver, message_type, content) ==
    LET message == Message(a.nextId, message_type, receiver, receiver, content)
    IN  [a EXCEPT !.messages = send(@, message),
                  !.nextId = @ + 1,
                  !.sent = Append(@, message)]

\* BaseAgent.send_message, through A2AProtocol.send_message
send_message(a, receiver, message_type, content) ==
    LET message == Message(a.nextId, message_type, name, receiver, content)
    IN  [a EXCEPT !.messages = send(@, message),
                  !.nextId = @ + 1,
                  !.sent = Append(@, message)]

\* BaseAgent.cleanup
BaseCleanup(a) == update_state(a, "IDLE")

\* faulty variant of ResearchCleanup: only the collectors are cleaned up
ResearchCleanup_CollectorsOnly(a) == a

\* ResearchAgent.cleanup: the collectors' cleanup only logs
ResearchCleanup(a) == BaseCleanup([a EXCEPT !.state = "IDLE"])

\* faulty variant of DirectCleanup: a running agent is left alone
DirectCleanup_Busy(a) == IF a.state = "RUNNING" THEN a ELSE [a EXCEPT !.state = "IDLE"]

\* AnalysisAgent.cleanup, WritingAgent.cleanup, ReviewAgent.cleanup
DirectCleanup(a) == [a EXCEPT !.state = "IDLE"]

\* self.cleanup(), by the class of self
cleanup(a) ==
    CASE kind = "BaseAgent" -> BaseCleanup(a)
      [] kind = "ResearchAgent" -> ResearchCleanup(a)
      [] OTHER -> DirectCleanup(a)

\* faulty variant of ReplyError: the except clause logs through log_error
\* before it replies
ReplyError_Logged(a, message, e) ==
    send_message(log_error(a), message.sender, "ERROR", Str(e))

\* the except clause of the message handlers
ReplyError(a, message, e) == send_message(a, message.sender, "ERROR", Str(e))

\* faulty variant of ReplyResult: the reply is addressed to the agent itself
ReplyResult_ToSelf(a, message, result) == send_message(a, name, "RESULT", result)

\* the success branch of the message handlers
ReplyResult(a, message, result) == send_message(a, message.sender, "RESULT", result)

\* BaseAgent._handle_task_message and ResearchAgent._handle_task_message
handle_task_message(a, message, env) ==
    LET r == Execute(kind, message.content.p, env)
        a1 == [a EXCEPT !.exec = r]
    IN  IF r.raised THEN ReplyError(a1, message, r.exc)
        ELSE ReplyResult(a1, message, r.value)

\* ResearchAgent._handle_request_message
handle_request_message(a, message, env) ==
    IF GetAction(message) # NoExc THEN ReplyError(a, message, GetAction(message))
    ELSE IF message.content.action = "get_data"
    THEN IF GetTask(message) # NoExc THEN ReplyError(a, message, GetTask(message))
         ELSE LET r == Execute(kind, message.content.task[1], env)
                  a1 == [a EXCEPT !.exec = r]
              IN  IF r.raised THEN ReplyError(a1, message, r.exc)
                  ELSE ReplyResult(a1, message, r.value)
    ELSE IF message.content.action = "get_status"
    THEN ReplyResult(a, message, <<"state", StateValue(a.state)>>)
    ELSE ReplyError(a, message,
             Exc("ValueError", <<"Unsupported request action", message.content.action>>))

\* faulty variant of handle_command_message: no else branch, an unknown
\* action is ignored
handle_command_message_Silent(a, message) ==
    IF GetAction(message) # NoExc THEN ReplyError(a, message, GetAction(message))
    ELSE IF message.content.action = "cleanup"
    THEN ReplyResult(cleanup(a), message, <<"status", "success">>)
    ELSE IF message.content.action = "reset"
    THEN ReplyResult(update_state(a, "IDLE"), message, <<"status", "success">>)
    ELSE a

\* ResearchAgent._handle_command_message
handle_command_message(a, message) ==
    IF GetAction(message) # NoExc THEN ReplyError(a, message, GetAction(message))
    ELSE IF message.content.action = "cleanup"
    THEN ReplyResult(cleanup(a), message, <<"status", "success">>)
    ELSE IF message.content.action = "reset"
    THEN ReplyResult(update_state(a, "IDLE"), message, <<"status", "success">>)
    ELSE ReplyError(a, message,
             Exc("ValueError", <<"Unsupported command action", message.content.action>>))

\* faulty variant of handle_error_message: the error is acknowledged
handle_error_message_Ack(a, message) ==
    ReplyResult(log_error(update_state(a, "ERROR")), message, <<"status", "received">>)

\* ResearchAgent._handle_error_message
handle_error_message(a, message) == log_error(update_state(a, "ERROR"))

\* the bound method self.<h>, called with message: the overrides of
\* ResearchAgent for an agent of that class, else the methods of BaseAgent,
\* which only log except for _handle_task_message
CallHandler(h, a, message, env) ==
    LET a1 == [a EXCEPT !.handler = h]
    IN  CASE h = "_handle_task_message" -> handle_task_message(a1, message, env)
          [] h = "_handle_request_message" /\ kind = "ResearchAgent" ->
                handle_request_message(a1, message, env)
          [] h = "_handle_command_message" /\ kind = "ResearchAgent" ->
                handle_command_message(a1, message)
          [] h = "_handle_error_message" /\ kind = "ResearchAgent" ->
                handle_error_message(a1, message)
          [] OTHER -> a1

\* faulty variant of ResearchHandlers: COMMAND is not registered
ResearchHandlers_NoCommand(t) ==
    CASE t = "TASK" -> "_handle_task_message"
      [] t = "REQUEST" -> "_handle_request_message"
      [] t = "ERROR" -> "_handle_error_message"
      [] OTHER -> "none"

\* ResearchAgent._setup_message_handlers: self.message_handlers.get(type)
ResearchHandlers(t) ==
    CASE t = "TASK" -> "_handle_task_message"
      [] t = "REQUEST" -> "_handle_request_message"
      [] t = "COMMAND" -> "_handle_command_message"
      [] t = "ERROR" -> "_handle_error_message"
      [] OTHER -> "none"

\* faulty variant of research_handle_message: a request that fails gets no
\* reply
research_handle_message_DropErrors(a, message, env) ==
    LET handler == ResearchHandlers(message.type)
        a1 == IF handler # "none" THEN CallHandler(handler, a, message, env) ELSE a
    IN  IF a1.sent # <<>> /\ a1.sent[1].type = "ERROR" THEN [a EXCEPT !.handler = a1.handler]
        ELSE a1

\* ResearchAgent.handle_message
research_handle_message(a, message, env) ==
    LET handler == ResearchHandlers(message.type)
    IN  IF handler # "none" THEN CallHandler(handler, a, message, env) ELSE a

\* faulty variant of protocol_handle_message: a message nobody handles is
\* an error
protocol_handle_message_Strict(a, message, env) ==
    LET handler == IF message.type \in DOMAIN message_handlers
                   THEN message_handlers[message.type] ELSE "none"
    IN  IF handler # "none" THEN CallHandler(handler, a, message, env)
        ELSE Propagate(a, Exc("ValueError", <<"no handler", message.type>>))

\* A2AProtocol.handle_message
protocol_handle_message(a, message, env) ==
    LET handler == IF message.type \in DOMAIN message_handlers
                   THEN message_handlers[message.type] ELSE "none"
    IN  IF handler # "none" THEN CallHandler(handler, a, message, env) ELSE a

\* faulty variant of validate: only ValueError is caught
validate_ValueErrorOnly(a, data, env) ==
    LET r == ValidateImpl(kind, data, env)
        a1 == [a EXCEPT !.exec = r]
    IN  IF r.raised /\ r.exc.type = "ValueError" THEN [a |-> log_error(a1), ret |-> <<FALSE>>]
        ELSE IF r.raised THEN [a |-> Propagate(a1, r.exc), ret |-> <<>>]
        ELSE [a |-> a1, ret |-> r.value]

\* BaseAgent.validate: the agent afterwards and the value returned
validate(a, data, env) ==
    LET r == ValidateImpl(kind, data, env)
        a1 == [a EXCEPT !.exec = r]
    IN  IF r.raised THEN [a |-> log_error(a1), ret |-> <<FALSE>>]
        ELSE [a |-> a1, ret |-> r.value]

\* --------------------------------------------------------------------- Init
\* faulty variant of InitialState: the agent is built running
InitialState_Running == "RUNNING"

\* BaseAgent.__init__: self.state
InitialState == "IDLE"

\* MessageQueue.__init__: self.messages
InitialMessages == <<>>

\* BaseAgent._setup_protocol_handlers: the message handlers
DefaultMessageHandlers ==
    [t \in MessageType |->
        CASE t = "TASK" -> "_handle_task_message"
          [] t = "RESULT" -> "_handle_result_message"
          [] t = "ERROR" -> "_handle_error_message"
          [] t = "STATUS" -> "_handle_status_message"
          [] t = "REQUEST" -> "_handle_request_message"
          [] t = "RESPONSE" -> "_handle_response_message"
          [] OTHER -> "none"]

\* BaseAgent._setup_protocol_handlers: the state handlers
DefaultStateHandlers ==
    [s \in AgentState |->
        CASE s = "IDLE" -> "_handle_idle_state"
          [] s = "RUNNING" -> "_handle_running_state"
          [] s = "ERROR" -> "_handle_error_state"
          [] OTHER -> "_handle_completed_state"]

NoMsg == [type |-> "-", sender |-> "-", action |-> "-"]

\* what is remembered of a message handled as a: its type, its sender, and
\* the action it asks for when a handler read it (only the REQUEST and
\* COMMAND handlers of ResearchAgent do)
Seen(message, a) ==
    [type |-> message.type, sender |-> message.sender,
     action |-> IF kind # "ResearchAgent"
                   \/ a.handler \notin {"_handle_request_message", "_handle_command_message"}
                THEN "-"
                ELSE IF message.content.p.shape # "dict" THEN "not a dict"
                ELSE message.content.action]

\* the record of a call: the operation, its argument, agent.state before it,
\* the message it was given, the message handler it entered, the outcome of
\* the execute or _validate_impl it made, the exception it raised to its
\* caller, the value it returned
Call(op, arg, msg, a, ret) ==
    [op |-> op, arg |-> arg, before |-> state, msg |-> msg, handler |-> a.handler,
     exec |-> a.exec, raised |-> a.raised, ret |-> ret]

Init ==
    /\ kind \in AgentKinds
    /\ peer \in Senders
    /\ state = InitialState
    /\ messages = InitialMessages
    /\ nextId = 1
    /\ message_handlers = DefaultMessageHandlers
    /\ state_handlers = DefaultStateHandlers
    /\ last = [op |-> "init", arg |-> "-", before |-> InitialState, msg |-> NoMsg,
               handler |-> "none", exec |-> NotCalled, raised |-> NoExc, ret |-> <<>>]
    /\ sent = <<>>
    /\ calls = <<>>
    /\ pushed = <<>>
    /\ received = <<>>
    /\ peer_messages = InitialMessages
    /\ peer_received = <<>>
    /\ handled = <<>>
    /\ orch = [pc |-> "idle", report_type |-> "-", executed |-> <<>>, results |-> <<>>,
               raised |-> NoExc, ret |-> None]
    /\ market = [called |-> FALSE, data |-> <<>>, ret |-> FALSE]
    /\ ref = <<>>

\* ------------------------------------------------------------------ actions
\* the agent after a call is a, the call is recorded as l
Commit(a, l) ==
    /\ a.nextId <= MaxSends + 1
    /\ state' = a.state
    /\ messages' = a.messages
    /\ nextId' = a.nextId
    /\ sent' = a.sent
    /\ calls' = a.calls
    /\ pushed' = pushed \o a.sent
    /\ last' = l
    /\ UNCHANGED <<kind, peer, message_handlers, state_handlers, received>>
    /\ UNCHANGED <<peer_messages, peer_received, handled, orch, market, ref>>

\* agent.handle_message(message): defined by ResearchAgent only; on an agent
\* of another class the attribute lookup fails
HandleMessage ==
    \E message \in InputMessages(kind) : \E env \in EnvsFor(kind, message) :
        IF kind = "ResearchAgent"
        THEN LET a == research_handle_message(Self, message, env)
             IN  Commit(a, Call("handle_message", "-", Seen(message, a), a, <<>>))
        ELSE LET a == Propagate(Self, Exc("AttributeError", <<"no attribute handle_message">>))
             IN  Commit(a, Call("handle_message", "-", Seen(message, a), a, <<>>))

\* agent._protocol.handle_message(message)
ProtocolHandleMessage ==
    \E message \in InputMessages(kind) : \E env \in EnvsFor(kind, message) :
        LET a == protocol_handle_message(Self, message, env)
        IN  Commit(a, Call("protocol.handle_message", "-", Seen(message, a), a, <<>>))

\* agent.execute(payload), called directly: an exception reaches the caller
DirectExecute ==
    \E payload \in PayloadsOf(kind), env \in EnvsOf(kind) :
        LET r == Execute(kind, payload, env)
            a == Propagate([Self EXCEPT !.exec = r], r.exc)
        IN  Commit(a, Call("execute", payload, NoMsg, a, r.value))

\* agent.validate(data)
Validate ==
    \E data \in PayloadsOf(kind), env \in EnvsOf(kind) :
        LET v == validate(Self, data, env)
        IN  Commit(v.a, Call("validate", "-", NoMsg, v.a, v.ret))

\* agent.update_state(new_state)
UpdateState ==
    \E new_state \in AgentState :
        LET a == update_state(Self, new_state)
        IN  Commit(a, Call("update_state", new_state, NoMsg, a, <<>>))

\* agent.log_error(error)
LogError ==
    LET a == log_error(Self)
    IN  Commit(a, Call("log_error", "-", NoMsg, a, <<>>))

\* agent.cleanup(); arg tells whether the call before it was a cleanup too
Cleanup ==
    LET a == cleanup(Self)
    IN  Commit(a, Call("cleanup", IF last.op = "cleanup" THEN "again" ELSE "first",
                       NoMsg, a, <<>>))

\* the calls that send no message
Next ==
    \/ DirectExecute
    \/ Validate
    \/ UpdateState
    \/ LogError
    \/ Cleanup

Spec == Init /\ [][Next]_vars

\* the message-driven calls, from every state of the agent
MessageNext ==
    \/ HandleMessage
    \/ ProtocolHandleMessage
    \/ UpdateState

MessageSpec == Init /\ [][MessageNext]_vars

\* ------------------------------------------------- the queue on its own
\* the agent names found in the sender field of the messages pushed
QueueSenders == Senders \cup {"ResearchAgent"}

\* the messages pushed into the queue, apart from their id
QueueMessages(id) ==
    { Message(id, t, s, "", <<"payload">>) : t \in {"TASK", "RESULT"}, s \in QueueSenders }

\* queue.push(message) / queue.send(message)
QPush ==
    /\ nextId <= MaxPush
    /\ \E message \in QueueMessages(nextId) :
        /\ messages' = send(messages, message)
        /\ pushed' = Append(pushed, message)
        /\ sent' = <<message>>
        /\ last' = Call("push", message.sender, NoMsg, Self, <<>>)
    /\ nextId' = nextId + 1
    /\ calls' = <<>>
    /\ UNCHANGED <<kind, peer, state, message_handlers, state_handlers, received>>
    /\ UNCHANGED <<peer_messages, peer_received, handled, orch, market, ref>>

\* queue.receive(agent_id)
QReceive ==
    \E agent_id \in QueueSenders :
        LET r == receive(messages, agent_id)
        IN  /\ messages' = r.q
            /\ received' = received \o r.ret
            /\ last' = Call("receive", agent_id, NoMsg, Self, r.ret)
            /\ sent' = <<>>
            /\ calls' = <<>>
            /\ UNCHANGED <<kind, peer, state, nextId, message_handlers, state_handlers, pushed>>
            /\ UNCHANGED <<peer_messages, peer_received, handled, orch, market, ref>>

QueueNext == QPush \/ QReceive

QueueSpec == Init /\ [][QueueNext]_vars

\* ------------------------------------- two agents, each with its own queue
\* the effects of a call on the agent itself, recorded as l
Effects(a, l) ==
    /\ a.nextId <= MaxExchange + 1
    /\ state' = a.state
    /\ messages' = a.messages
    /\ nextId' = a.nextId
    /\ sent' = a.sent
    /\ calls' = a.calls
    /\ pushed' = pushed \o a.sent
    /\ last' = l
    /\ UNCHANGED <<kind, peer, message_handlers, state_handlers, orch, market, ref>>

\* the message types and the content passed to send_message
SendTypes == {"TASK", "STATUS"}

SendContent == <<"payload">>

\* agent.send_message(receiver, message_type, content)
SendMessage ==
    \E message_type \in SendTypes :
        LET a == send_message(Self, peer, message_type, SendContent)
        IN  /\ Effects(a, Call("send_message", peer, NoMsg, a, <<>>))
            /\ UNCHANGED <<received, peer_messages, peer_received, handled>>

\* BaseAgent.receive_message, through A2AProtocol.receive_message
receive_message(a) ==
    LET r == receive(a.messages, name)
    IN  [a |-> [a EXCEPT !.messages = r.q], ret |-> r.ret]

\* agent.receive_message()
ReceiveMessage ==
    LET r == receive_message(Self)
    IN  /\ Effects(r.a, Call("receive_message", "-", NoMsg, r.a, r.ret))
        /\ received' = received \o r.ret
        /\ UNCHANGED <<peer_messages, peer_received, handled>>

\* number of Message objects the peer created so far
peerCreated == Len(peer_messages) + Len(peer_received)

\* peer.send_message(receiver, message_type, content): the peer is an agent
\* too, its message goes into its own queue
PeerSendMessage ==
    /\ peerCreated < MaxPeerSends
    /\ peer_messages' =
          send(peer_messages, Message(0 - (peerCreated + 1), "TASK", peer, name, SendContent))
    /\ last' = Call("peer.send_message", name, NoMsg, Self, <<>>)
    /\ sent' = <<>>
    /\ calls' = <<>>
    /\ UNCHANGED <<kind, peer, state, messages, nextId, message_handlers, state_handlers,
                   pushed, received, peer_received, handled, orch, market, ref>>

\* peer.receive_message(): what it returns has reached the peer
PeerReceiveMessage ==
    LET r == receive(peer_messages, peer)
    IN  /\ peer_messages' = r.q
        /\ peer_received' = peer_received \o r.ret
        /\ last' = Call("peer.receive_message", "-", NoMsg, Self, r.ret)
        /\ sent' = <<>>
        /\ calls' = <<>>
        /\ UNCHANGED <<kind, peer, state, messages, nextId, message_handlers, state_handlers,
                       pushed, received, handled, orch, market, ref>>

\* the task of the requests the peer makes
RequestTask == [shape |-> "dict", keys |-> {"type", "target", "timeframe"}, type |-> "company"]

\* the requests and commands the peer hands to the ResearchAgent
PeerRequests ==
    { [type |-> "REQUEST", sender |-> peer, content |-> c] :
        c \in { Content(EmptyDict, "get_status", <<>>),
                Content(EmptyDict, "invalid_action", <<>>),
                Content(EmptyDict, "get_data", <<RequestTask>>) } }
    \cup { [type |-> "COMMAND", sender |-> peer, content |-> Content(EmptyDict, "cleanup", <<>>)] }

\* research_agent.handle_message(request), the request made by the peer
HandleRequest ==
    /\ kind = "ResearchAgent"
    /\ \E message \in PeerRequests : \E env \in EnvsFor(kind, message) :
          LET a == research_handle_message(Self, message, env)
          IN  /\ Effects(a, Call("handle_message", "-", Seen(message, a), a, <<>>))
              /\ handled' = Append(handled, [msg |-> Seen(message, a), exec |-> a.exec,
                                              replies |-> a.sent])
    /\ UNCHANGED <<received, peer_messages, peer_received>>

ExchangeNext ==
    \/ SendMessage
    \/ ReceiveMessage
    \/ PeerSendMessage
    \/ PeerReceiveMessage
    \/ HandleRequest

ExchangeSpec == Init /\ [][ExchangeNext]_vars

\* ------------------------------------------------------------ Orchestrator
\* the agents Orchestrator.__init__ builds, in the order generate_report
\* calls their execute
Stages == <<"ResearchAgent", "AnalysisAgent", "WritingAgent", "ReviewAgent">>

\* the keys of the dict generate_report passes to the execute of an agent
StageKeys(k) ==
    CASE k = "ResearchAgent" -> {"type", "target", "timeframe"}
      [] k = "AnalysisAgent" -> {"type", "target", "timeframe", "data"}
      [] k = "WritingAgent" -> {"type", "target", "timeframe", "analysis_results"}
      [] k = "ReviewAgent" -> {"type", "target", "timeframe", "content", "analysis_results"}

StagePayload(k, report_type) == [shape |-> "dict", keys |-> StageKeys(k), type |-> report_type]

\* faulty variant of NextStage: a failed stage is skipped over
NextStage_Continue(k, r) ==
    CASE k = "ResearchAgent" -> "AnalysisAgent"
      [] k = "AnalysisAgent" -> "WritingAgent"
      [] k = "WritingAgent" -> "ReviewAgent"
      [] k = "ReviewAgent" -> "done"

\* where generate_report goes after the execute of agent k had outcome r: an
\* exception leaves the try block
NextStage(k, r) ==
    IF r.raised THEN "done"
    ELSE CASE k = "ResearchAgent" -> "AnalysisAgent"
           [] k = "AnalysisAgent" -> "WritingAgent"
           [] k = "WritingAgent" -> "ReviewAgent"
           [] k = "ReviewAgent" -> "done"

\* the value generate_report returns after the review: report and review
Report(results, review) == <<"report">> \o results[3].value \o <<"review">> \o review.value

\* one statement of generate_report: <agent k>.execute({...})
RunStage(k) ==
    /\ \E env \in EnvsOf(k) :
          LET r == Execute(k, StagePayload(k, orch.report_type), env)
          IN  orch' = [orch EXCEPT !.pc = NextStage(k, r),
                                   !.executed = Append(@, k),
                                   !.results = Append(@, r),
                                   !.raised = r.exc,
                                   !.ret = IF ~r.raised /\ k = "ReviewAgent"
                                           THEN Report(orch.results, r) ELSE None]
    /\ UNCHANGED <<kind, peer, state, messages, nextId, message_handlers, state_handlers,
                   last, sent, calls, pushed, received, peer_messages, peer_received, handled, market, ref>>

\* orchestrator.generate_report(report_type, target, timeframe) is called
GenerateReport ==
    /\ orch.pc \in {"idle", "done"}
    /\ \E report_type \in TypeValues :
          orch' = [pc |-> "ResearchAgent", report_type |-> report_type, executed |-> <<>>,
                   results |-> <<>>, raised |-> NoExc, ret |-> None]
    /\ UNCHANGED <<kind, peer, state, messages, nextId, message_handlers, state_handlers,
                   last, sent, calls, pushed, received, peer_messages, peer_received, handled, market, ref>>

ResearchStage == orch.pc = "ResearchAgent" /\ RunStage("ResearchAgent")

AnalysisStage == orch.pc = "AnalysisAgent" /\ RunStage("AnalysisAgent")

WritingStage == orch.pc = "WritingAgent" /\ RunStage("WritingAgent")

ReviewStage == orch.pc = "ReviewAgent" /\ RunStage("ReviewAgent")

OrchestratorNext ==
    \/ GenerateReport
    \/ ResearchStage
    \/ AnalysisStage
    \/ WritingStage
    \/ ReviewStage

OrchestratorSpec == Init /\ [][OrchestratorNext]_vars

\* ------------------------------------------------------ market validation
\* the numbers found in market data
Numbers == (0 - MaxNum)..MaxNum

\* the market data handed to validate: complete data with every combination
\* of numbers, and the malformed kinds (a top-level field missing, the data
\* field not a dict, a data field missing, a price given as a string)
MarketData ==
    [shape : {"complete"}, open : Numbers, close : Numbers, high : Numbers,
     low : Numbers, volume : Numbers]
    \cup [shape : {"no_sources", "data_not_dict", "no_volume", "open_is_str"},
          open : {0}, close : {0}, high : {0}, low : {0}, volume : {0}]

\* json.dumps / json.loads: the text of a value, and the value of a text
json_dumps(v) == [json |-> v]

json_loads(text) == text.json

Invalid(error) == [valid |-> FALSE, error |-> error]

\* validate_market_data(market_data): the JSON text it returns
validate_market_data(market_data) ==
    LET data == json_loads(market_data)
    IN  json_dumps(
          IF data.shape = "no_sources" THEN Invalid("Missing required fields")
          ELSE IF data.shape = "data_not_dict" THEN Invalid("Data field is not a dictionary")
          ELSE IF data.shape = "no_volume" THEN Invalid("Missing required data fields")
          ELSE IF data.high < data.low THEN Invalid("High price is less than low price")
          ELSE IF data.shape = "open_is_str"
               THEN Invalid("'<' not supported between instances of 'str' and 'int'")
          ELSE IF data.open < data.low \/ data.open > data.high
               THEN Invalid("Open price is outside of high-low range")
          ELSE IF data.close < data.low \/ data.close > data.high
               THEN Invalid("Close price is outside of high-low range")
          ELSE [valid |-> TRUE, error |-> ""])

\* MarketDataCollector.validate(data)
market_validate(data) == json_loads(validate_market_data(json_dumps(data))).valid

\* collector.validate(data), called once on a collector
MarketValidate ==
    /\ ~market.called
    /\ \E data \in MarketData :
          market' = [called |-> TRUE, data |-> data, ret |-> market_validate(data)]
    /\ UNCHANGED <<kind, peer, state, messages, nextId, message_handlers, state_handlers,
                   last, sent, calls, pushed, received, peer_messages, peer_received, handled,
                   orch, ref>>

MarketNext == MarketValidate

MarketSpec == Init /\ [][MarketNext]_vars

\* ------------------------------------------------- the handler registries
\* A2AProtocol.__init__: both registries are empty ("none" = no entry)
EmptyMessageHandlers == [t \in MessageType |-> "none"]

EmptyStateHandlers == [s \in AgentState |-> "none"]

\* the protocol of an agent right after A2AProtocol.__init__, before any
\* handler is registered
RegistryInit ==
    /\ kind = "BaseAgent"
    /\ peer \in Senders
    /\ state = InitialState
    /\ messages = InitialMessages
    /\ nextId = 1
    /\ message_handlers = EmptyMessageHandlers
    /\ state_handlers = EmptyStateHandlers
    /\ last = [op |-> "init", arg |-> "-", before |-> InitialState, msg |-> NoMsg,
               handler |-> "none", exec |-> NotCalled, raised |-> NoExc, ret |-> <<>>]
    /\ sent = <<>>
    /\ calls = <<>>
    /\ pushed = <<>>
    /\ received = <<>>
    /\ peer_messages = InitialMessages
    /\ peer_received = <<>>
    /\ handled = <<>>
    /\ orch = [pc |-> "idle", report_type |-> "-", executed |-> <<>>, results |-> <<>>,
               raised |-> NoExc, ret |-> None]
    /\ market = [called |-> FALSE, data |-> <<>>, ret |-> FALSE]
    /\ ref = <<>>

\* the keys registered and the callbacks registered for them: a method of
\* BaseAgent and a callback of the application
RegisteredTypes == {"STATUS", "COMMAND"}

MessageCallbacks == {"_handle_status_message", "on_message"}

RegisteredStates == {"RUNNING", "ERROR"}

StateCallbacks == {"_handle_error_state", "on_state"}

\* faulty variant of register_handler: a key that has a handler keeps it
register_handler_KeepFirst(registry, key, handler) ==
    IF registry[key] # "none" THEN registry ELSE [registry EXCEPT ![key] = handler]

\* self._message_handlers[message_type] = handler, and the same statement
\* on self._state_handlers
register_handler(registry, key, handler) == [registry EXCEPT ![key] = handler]

\* protocol.register_message_handler(message_type, handler)
RegisterMessageHandler ==
    \E message_type \in RegisteredTypes, handler \in MessageCallbacks :
        /\ message_handlers' = register_handler(message_handlers, message_type, handler)
        /\ last' = Call("register_message_handler", message_type, NoMsg, Self, <<handler>>)
        /\ sent' = <<>>
        /\ calls' = <<>>
        /\ UNCHANGED <<kind, peer, state, messages, nextId, state_handlers, pushed, received,
                       peer_messages, peer_received, handled, orch, market, ref>>

\* protocol.register_state_handler(state, handler)
RegisterStateHandler ==
    \E new_state \in RegisteredStates, handler \in StateCallbacks :
        /\ state_handlers' = register_handler(state_handlers, new_state, handler)
        /\ last' = Call("register_state_handler", new_state, NoMsg, Self, <<handler>>)
        /\ sent' = <<>>
        /\ calls' = <<>>
        /\ UNCHANGED <<kind, peer, state, messages, nextId, message_handlers, pushed, received,
                       peer_messages, peer_received, handled, orch, market, ref>>

\* the messages handed to the protocol: of the types registered and of one
\* type that never is
RegistryMessages ==
    { [type |-> t, sender |-> peer, content |-> Content(StrPayload, "None", <<>>)] :
        t \in RegisteredTypes \cup {"RESPONSE"} }

\* protocol.handle_message(message)
RegistryHandleMessage ==
    \E message \in RegistryMessages : \E env \in EnvsFor(kind, message) :
        LET a == protocol_handle_message(Self, message, env)
        IN  Commit(a, Call("protocol.handle_message", "-", Seen(message, a), a, <<>>))

\* agent.update_state(new_state), with the registry as it is
RegistryUpdateState ==
    \E new_state \in AgentState :
        LET a == update_state(Self, new_state)
        IN  Commit(a, Call("update_state", new_state, NoMsg, a, <<>>))

RegistryNext ==
    \/ RegisterMessageHandler
    \/ RegisterStateHandler
    \/ RegistryHandleMessage
    \/ RegistryUpdateState

RegistrySpec == RegistryInit /\ [][RegistryNext]_vars

\* ------------------------------------------ the queue read by sender
\* faulty variant of peek_receive: the newest message of the sender
peek_receive_Newest(q, agent_id) ==
    LET i == FirstFrom_Last(q, agent_id, 1)
    IN  IF i = 0 THEN None ELSE <<q[i]>>

\* MessageQueue.peek_receive: <<message>> or None
peek_receive(q, agent_id) ==
    LET i == FirstFrom(q, agent_id, 1)
    IN  IF i = 0 THEN None ELSE <<q[i]>>

\* faulty variant of clear_receive: only the first message of the sender goes
clear_receive_First(q, agent_id) ==
    LET i == FirstFrom(q, agent_id, 1)
    IN  IF i = 0 THEN q ELSE RemoveAt(q, i)

\* MessageQueue.clear_receive: the list comprehension, element by element
RECURSIVE clear_receive(_, _)
clear_receive(q, agent_id) ==
    IF q = <<>> THEN <<>>
    ELSE IF Head(q).sender # agent_id
         THEN <<Head(q)>> \o clear_receive(Tail(q), agent_id)
         ELSE clear_receive(Tail(q), agent_id)

\* the messages pushed, apart from their id
SenderMessages(id) == { Message(id, "TASK", s, "", <<"payload">>) : s \in QueueSenders }

\* queue.push(message)
SenderPush ==
    /\ nextId <= MaxFifo
    /\ \E message \in SenderMessages(nextId) :
          /\ messages' = push(messages, message)
          /\ last' = Call("push", message.sender, NoMsg, Self, <<>>)
    /\ nextId' = nextId + 1
    /\ sent' = <<>>
    /\ calls' = <<>>
    /\ UNCHANGED <<kind, peer, state, message_handlers, state_handlers>>
    /\ UNCHANGED <<pushed, received, peer_messages, peer_received, handled, orch, market, ref>>

\* queue.receive(agent_id)
SenderReceive ==
    \E agent_id \in QueueSenders :
        LET r == receive(messages, agent_id)
        IN  /\ messages' = r.q
            /\ received' = received \o r.ret
            /\ last' = Call("receive", agent_id, NoMsg, Self, r.ret)
            /\ sent' = <<>>
            /\ calls' = <<>>
            /\ UNCHANGED <<kind, peer, state, nextId, message_handlers, state_handlers, pushed>>
            /\ UNCHANGED <<peer_messages, peer_received, handled, orch, market, ref>>

\* queue.peek_receive(agent_id)
SenderPeekReceive ==
    \E agent_id \in QueueSenders :
        /\ last' = Call("peek_receive", agent_id, NoMsg, Self, peek_receive(messages, agent_id))
        /\ sent' = <<>>
        /\ calls' = <<>>
        /\ UNCHANGED <<kind, peer, state, messages, nextId, message_handlers, state_handlers>>
        /\ UNCHANGED <<pushed, received, peer_messages, peer_received, handled, orch, market, ref>>

\* queue.clear_receive(agent_id)
SenderClearReceive ==
    \E agent_id \in QueueSenders :
        /\ messages' = clear_receive(messages, agent_id)
        /\ last' = Call("clear_receive", agent_id, NoMsg, Self, <<>>)
        /\ sent' = <<>>
        /\ calls' = <<>>
        /\ UNCHANGED <<kind, peer, state, nextId, message_handlers, state_handlers>>
        /\ UNCHANGED <<pushed, received, peer_messages, peer_received, handled, orch, market, ref>>

SenderQueueNext ==
    \/ SenderPush
    \/ SenderReceive
    \/ SenderPeekReceive
    \/ SenderClearReceive

\* the queue of one agent, just constructed
SenderQueueInit == Init /\ kind = "BaseAgent"

SenderQueueSpec == SenderQueueInit /\ [][SenderQueueNext]_vars

\* ------------------------------------------ the queue as a plain FIFO
\* faulty variant of pop: the newest message is taken
pop_Newest(q) ==
    IF q = <<>> THEN [ret |-> None, q |-> q]
    ELSE [ret |-> <<q[Len(q)]>>, q |-> RemoveAt(q, Len(q))]

\* MessageQueue.pop: [ret, q]; self.messages.pop(0) takes index 0
pop(q) ==
    IF q = <<>> THEN [ret |-> None, q |-> q]
    ELSE [ret |-> <<q[1]>>, q |-> RemoveAt(q, 1)]

\* MessageQueue.peek
peek(q) == IF q = <<>> THEN None ELSE <<q[1]>>

\* MessageQueue.clear
clear(q) == <<>>

\* MessageQueue.is_empty
is_empty(q) == Len(q) = 0

\* MessageQueue.size
size(q) == Len(q)

\* the messages pushed, apart from their id
FifoMessages(id) == { Message(id, "TASK", s, "", <<"payload">>) : s \in Senders }

\* a call on the queue alone: the agent and the other histories stay
FifoFrame ==
    /\ sent' = <<>>
    /\ calls' = <<>>
    /\ UNCHANGED <<kind, peer, state, message_handlers, state_handlers, pushed, received,
                   peer_messages, peer_received, handled, orch, market>>

\* queue.push(message); the reference sequence gets the message at its end
FifoPush ==
    /\ nextId <= MaxFifo
    /\ \E message \in FifoMessages(nextId) :
          /\ messages' = push(messages, message)
          /\ ref' = Append(ref, message)
          /\ last' = Call("push", message.sender, NoMsg, Self, <<>>)
    /\ nextId' = nextId + 1
    /\ FifoFrame

\* queue.pop(); the reference sequence loses its head
FifoPop ==
    LET r == pop(messages)
    IN  /\ messages' = r.q
        /\ ref' = IF ref = <<>> THEN ref ELSE Tail(ref)
        /\ last' = Call("pop", "-", NoMsg, Self, r.ret)
        /\ UNCHANGED nextId
        /\ FifoFrame

\* queue.peek()
FifoPeek ==
    /\ last' = Call("peek", "-", NoMsg, Self, peek(messages))
    /\ UNCHANGED <<messages, ref, nextId>>
    /\ FifoFrame

\* queue.clear(); the reference sequence becomes empty
FifoClear ==
    /\ messages' = clear(messages)
    /\ ref' = <<>>
    /\ last' = Call("clear", "-", NoMsg, Self, <<>>)
    /\ UNCHANGED nextId
    /\ FifoFrame

\* queue.is_empty()
FifoIsEmpty ==
    /\ last' = Call("is_empty", "-", NoMsg, Self, <<is_empty(messages)>>)
    /\ UNCHANGED <<messages, ref, nextId>>
    /\ FifoFrame

\* queue.size()
FifoSize ==
    /\ last' = Call("size", "-", NoMsg, Self, <<size(messages)>>)
    /\ UNCHANGED <<messages, ref, nextId>>
    /\ FifoFrame

FifoNext ==
    \/ FifoPush
    \/ FifoPop
    \/ FifoPeek
    \/ FifoClear
    \/ FifoIsEmpty
    \/ FifoSize

FifoSpec == Init /\ [][FifoNext]_vars

\* ------------------------------------------------------------------ claims
\* the last call handled a message: ResearchAgent.handle_message, or the
\* protocol's dispatch to the handlers registered by BaseAgent
MessageCall == last.op \in {"handle_message", "protocol.handle_message"}

\* the last call entered _handle_task_message
HandledTask == MessageCall /\ last.handler = "_handle_task_message"

\* C1: when an agent handles a TASK message and execute returns normally,
\* exactly one message is sent: a RESULT from the agent to the sender of the
\* TASK whose content is the value execute returned, and no ERROR.
C1_TaskResultReply ==
    (HandledTask /\ ~last.exec.raised) =>
        /\ Len(sent) = 1
        /\ sent[1].type = "RESULT"
        /\ sent[1].sender = name
        /\ sent[1].receiver = last.msg.sender
        /\ sent[1].content = last.exec.value
        /\ \A i \in 1..Len(sent) : sent[i].type # "ERROR"
        /\ messages # <<>> /\ messages[Len(messages)] = sent[1]

C1_Witness ==
    /\ HandledTask /\ ~last.exec.raised
    /\ kind = "ResearchAgent" /\ last.op = "handle_message"
    /\ last.msg.sender = "analysis_agent"
    /\ Len(sent) = 1 /\ sent[1].content[1] = "collected"

\* C2: when an agent handles a TASK message and execute raises, exactly one
\* message is sent: an ERROR to the sender of the TASK whose content is the
\* string form of the error (its message; for a KeyError the missing key
\* between quotes); no RESULT is sent and nothing is raised to the caller.
C2_TaskErrorReply ==
    (HandledTask /\ last.exec.raised) =>
        /\ Len(sent) = 1
        /\ sent[1].type = "ERROR"
        /\ sent[1].receiver = last.msg.sender
        /\ sent[1].content = (IF last.exec.exc.type = "KeyError"
                               THEN <<"'">> \o last.exec.exc.arg \o <<"'">>
                               ELSE last.exec.exc.arg)
        /\ \A i \in 1..Len(sent) : sent[i].type # "RESULT"
        /\ last.raised = NoExc

C2_Witness ==
    /\ HandledTask /\ last.exec.raised
    /\ last.exec.exc.type = "KeyError"
    /\ Len(sent) = 1 /\ sent[1].content = <<"'", "type", "'">>

\* the message types that are answered, according to C3
Answered == {"TASK", "REQUEST", "COMMAND"}

\* C3 as stated: every handling of a message sends exactly one reply when
\* the type is TASK, REQUEST or COMMAND and none for the other types.
C3_OneReplyPerActiveType ==
    MessageCall => Len(sent) = (IF last.msg.type \in Answered THEN 1 ELSE 0)

\* C3 as amended: a message never gets more than one reply;
\* ResearchAgent.handle_message sends exactly one for TASK, REQUEST and
\* COMMAND and none for the other types; the handlers BaseAgent registers
\* send exactly one for TASK (and for REQUEST when ResearchAgent overrides
\* the handler) and none for the other types, COMMAND included; the other
\* classes have no handle_message, the call fails and sends nothing.
C3_AtMostOneReply ==
    MessageCall =>
        /\ Len(sent) <= 1
        /\ (last.op = "handle_message" /\ kind = "ResearchAgent") =>
               Len(sent) = (IF last.msg.type \in Answered THEN 1 ELSE 0)
        /\ (last.op = "handle_message" /\ kind # "ResearchAgent") =>
               (sent = <<>> /\ last.raised.type = "AttributeError")
        /\ (last.op = "protocol.handle_message") =>
               Len(sent) = (IF \/ last.msg.type = "TASK"
                               \/ last.msg.type = "REQUEST" /\ kind = "ResearchAgent"
                            THEN 1 ELSE 0)

C3_Witness ==
    /\ last.op = "handle_message" /\ kind = "ResearchAgent"
    /\ last.msg.type = "COMMAND" /\ last.msg.action = "reset"
    /\ Len(sent) = 1

\* the last call gave a REQUEST or COMMAND with an action its handler does
\* not know to a ResearchAgent
UnknownAction ==
    /\ kind = "ResearchAgent"
    /\ MessageCall
    /\ last.op = "handle_message" \/ last.handler # "none"
    /\ \/ last.msg.type = "REQUEST" /\ last.msg.action \notin RequestActions
       \/ last.msg.type = "COMMAND" /\ last.msg.action \notin CommandActions

C5_UnsupportedActionRaises ==
    (kind = "ResearchAgent" /\ last.op = "handle_message"
        /\ last.msg.type \in {"REQUEST", "COMMAND"}) =>
        IF last.msg.action = "invalid_action"
        THEN last.raised.type = "ValueError"
        ELSE last.raised = NoExc

\* the messages of sender s in a sequence of messages, in order
From(q, s) == LET Test(m) == m.sender = s IN SelectSeq(q, Test)

\* C6: per sender the queue is first-in first-out: the messages receive(s)
\* has returned are, in order, the first messages pushed with sender s; a
\* call returns at most one message, and it returns none only when every
\* message pushed with sender s has been returned.  So after M1 and M2 of
\* sender s were pushed, receive(s) returns M1, then M2, then no message.
C6_FifoPerSender ==
    /\ \A s \in QueueSenders :
          /\ Len(From(received, s)) <= Len(From(pushed, s))
          /\ From(received, s) = SubSeq(From(pushed, s), 1, Len(From(received, s)))
    /\ last.op = "receive" =>
          /\ Len(last.ret) <= 1
          /\ last.ret = None => From(received, last.arg) = From(pushed, last.arg)
          /\ last.ret # None =>
                /\ last.ret[1].sender = last.arg
                /\ received # <<>> /\ received[Len(received)] = last.ret[1]

C6_Witness ==
    /\ last.op = "receive" /\ last.ret = None
    /\ Len(pushed) = 3
    /\ pushed[1].sender = last.arg
    /\ pushed[2].sender # last.arg
    /\ pushed[3].sender = last.arg
    /\ From(received, last.arg) = <<pushed[1], pushed[3]>>
    /\ messages = <<pushed[2]>>

\* C7: update_state(S) ends with agent.state = S from every prior state, and
\* agent.state is always one of the four states.
C7_UpdateStateTotal ==
    /\ state \in AgentState
    /\ last.op = "update_state" => (last.arg \in AgentState /\ state = last.arg)

C7_Witness ==
    /\ last.op = "update_state"
    /\ last.before = "ERROR" /\ last.arg = "RUNNING" /\ state = "RUNNING"

\* C8: cleanup() leaves state IDLE for every class of agent and every prior
\* state, and a cleanup that follows a cleanup leaves the state as it was.
C8_CleanupIdle ==
    last.op = "cleanup" =>
        /\ state = "IDLE"
        /\ last.raised = NoExc
        /\ last.arg = "again" => state = last.before

C8_Witness ==
    /\ last.op = "cleanup" /\ last.arg = "again"
    /\ kind = "WritingAgent" /\ state = "IDLE"

\* C9: a newly constructed agent has state IDLE and an empty message queue.
C9_NewAgentIdle ==
    last.op = "init" => (state = "IDLE" /\ messages = <<>> /\ pushed = <<>>)

C9_Witness == last.op = "init" /\ kind = "ResearchAgent" /\ state = "IDLE"

\* C10: validate(data) returns a boolean and raises nothing, and returns
\* False when _validate_impl raised.
C10_ValidateTotal ==
    last.op = "validate" =>
        /\ last.raised = NoExc
        /\ last.ret \in {<<TRUE>>, <<FALSE>>}
        /\ last.exec.raised => last.ret = <<FALSE>>

C10_Witness ==
    /\ last.op = "validate" /\ last.exec.raised
    /\ kind = "ResearchAgent" /\ last.exec.exc.type = "TypeError"
    /\ last.ret = <<FALSE>>

\* C11: the state of the ResearchAgent reflects the outcome of its last
\* execute: COMPLETED after an execute that returned (called through a TASK
\* message or a REQUEST get_data message), ERROR after a REQUEST get_data
\* whose task made execute raise.
C11_StateReflectsExecute ==
    (kind = "ResearchAgent" /\ last.op = "handle_message"
        /\ last.handler \in {"_handle_task_message", "_handle_request_message"}
        /\ last.exec # NotCalled) =>
        /\ ~last.exec.raised => state = "COMPLETED"
        /\ (last.exec.raised /\ last.msg.type = "REQUEST") => state = "ERROR"

\* the last call handled a TASK, REQUEST or COMMAND message and its handler
\* caught an exception (the except clause sent the ERROR reply)
CaughtException ==
    /\ MessageCall
    /\ last.msg.type \in {"TASK", "REQUEST", "COMMAND"}
    /\ last.handler # "none"
    /\ sent # <<>> /\ sent[Len(sent)].type = "ERROR"

C13_LogErrorDrivesState ==
    last.op = "log_error" =>
        /\ state = "ERROR"
        /\ last.raised = NoExc
        /\ Len(calls) = 1
        /\ calls[1].handler = "_handle_error_state"
        /\ calls[1].old = last.before /\ calls[1].new = "ERROR"
        /\ calls[1].at = "ERROR"

C13_Witness ==
    /\ last.op = "log_error" /\ last.before = "COMPLETED"
    /\ state = "ERROR" /\ Len(calls) = 1

\* the elements of a sequence, as a set
Range(q) == {q[i] : i \in 1..Len(q)}

\* the last call was the ResearchAgent handling a REQUEST or COMMAND of the
\* peer
HandledRequest ==
    /\ kind = "ResearchAgent" /\ last.op = "handle_message"
    /\ last.msg.type \in {"REQUEST", "COMMAND"} /\ last.msg.sender = peer

\* C14: when the ResearchAgent handles a REQUEST or COMMAND of another agent
\* A, the reply reaches A: afterwards the messages A received contain exactly
\* one message for the request, a RESULT on success and an ERROR on failure.
C14_ReplyReachesRequester ==
    HandledRequest =>
        /\ Len(sent) = 1
        /\ sent[1].type = (IF last.msg.action = "invalid_action" \/ last.exec.raised
                           THEN "ERROR" ELSE "RESULT")
        /\ Cardinality({i \in 1..Len(peer_received) : peer_received[i] = sent[1]}) = 1

RECURSIVE Replies(_)
Replies(h) == IF h = <<>> THEN <<>> ELSE Head(h).replies \o Replies(Tail(h))

\* the messages of q that are replies, in order
RepliesIn(q) == LET Test(m) == m.type \in {"RESULT", "ERROR"} IN SelectSeq(q, Test)

\* C16: when the ResearchAgent handles n REQUEST (or COMMAND) messages one
\* after another it produces exactly n replies, one per request, addressed to
\* the sender of the request, and the replies were produced, and lie in the
\* queue, in the order in which the requests were handled.
C16_RepliesInRequestOrder ==
    /\ \A i \in 1..Len(handled) :
          /\ Len(handled[i].replies) = 1
          /\ handled[i].replies[1].receiver = handled[i].msg.sender
          /\ handled[i].replies[1].type =
                (IF handled[i].msg.action = "invalid_action" \/ handled[i].exec.raised
                 THEN "ERROR" ELSE "RESULT")
          /\ (handled[i].msg.action = "get_data" /\ ~handled[i].exec.raised) =>
                handled[i].replies[1].content = handled[i].exec.value
    /\ Len(Replies(handled)) = Len(handled)
    /\ RepliesIn(pushed) = Replies(handled)
    /\ received = <<>> => RepliesIn(messages) = Replies(handled)

C16_Witness ==
    /\ Len(handled) = 3
    /\ handled[1].msg.action = "get_data"
    /\ handled[2].msg.action = "invalid_action"
    /\ handled[3].msg.action = "get_status"
    /\ messages = Replies(handled)
    /\ messages[1].type = "RESULT" /\ messages[2].type = "ERROR" /\ messages[3].type = "RESULT"

\* C17: when the ResearchAgent handles a COMMAND message whose action is
\* cleanup or reset, from every prior state, its state afterwards is IDLE and
\* it has sent exactly one message: a RESULT to the sender of the command
\* whose content has status "success".
C17_CommandResetsToIdle ==
    (kind = "ResearchAgent" /\ last.op = "handle_message"
        /\ last.msg.type = "COMMAND" /\ last.msg.action \in {"cleanup", "reset"}) =>
        /\ state = "IDLE"
        /\ Len(sent) = 1
        /\ sent[1].type = "RESULT"
        /\ sent[1].receiver = last.msg.sender
        /\ sent[1].content = <<"status", "success">>
        /\ last.raised = NoExc

C17_Witness ==
    /\ kind = "ResearchAgent" /\ last.op = "handle_message"
    /\ last.msg.type = "COMMAND" /\ last.msg.action = "cleanup"
    /\ last.before = "ERROR" /\ state = "IDLE" /\ Len(sent) = 1

\* C18: when the ResearchAgent handles an ERROR message, from every prior
\* state, its state afterwards is ERROR and no message is sent.
C18_ErrorMessageSetsError ==
    (kind = "ResearchAgent" /\ last.op = "handle_message" /\ last.msg.type = "ERROR") =>
        /\ last.handler = "_handle_error_message"
        /\ state = "ERROR"
        /\ sent = <<>>
        /\ last.raised = NoExc

C18_Witness ==
    /\ kind = "ResearchAgent" /\ last.op = "handle_message" /\ last.msg.type = "ERROR"
    /\ last.before = "COMPLETED" /\ state = "ERROR" /\ messages = <<>>

\* C19: a direct call of ResearchAgent.execute(task) raises ValueError to its
\* caller for every task (a dict) that lacks one of the keys type, target,
\* timeframe or whose type is not a supported report type.
C19_InvalidTaskRaisesValueError ==
    (kind = "ResearchAgent" /\ last.op = "execute" /\ last.arg.shape = "dict"
        /\ \/ ~({"type", "target", "timeframe"} \subseteq last.arg.keys)
           \/ last.arg.type \notin {"company", "industry", "macro"}) =>
        last.raised.type = "ValueError"

\* C20: generate_report calls the execute of the four agents in the order
\* research, analysis, writing, review, each stage after the one before it
\* returned; when a stage raises no later stage is executed, the exception
\* propagates to the caller and nothing is returned; a report is returned
\* only after all four stages returned.
C20_StagesInOrder ==
    LET n == Len(orch.executed)
    IN  /\ n <= Len(Stages)
        /\ orch.executed = SubSeq(Stages, 1, n)
        /\ Len(orch.results) = n
        /\ \A i \in 1..(n - 1) : ~orch.results[i].raised
        /\ orch.pc \notin {"idle", "done"} =>
              /\ n < Len(Stages) /\ orch.pc = Stages[n + 1]
              /\ \A i \in 1..n : ~orch.results[i].raised
              /\ orch.ret = None
        /\ (orch.pc = "done" /\ orch.results[n].raised) =>
              /\ orch.raised = orch.results[n].exc /\ orch.raised # NoExc
              /\ orch.ret = None
        /\ (orch.pc = "done" /\ ~orch.results[n].raised) =>
              /\ n = Len(Stages)
              /\ orch.raised = NoExc
              /\ orch.ret = <<"report">> \o orch.results[3].value
                                \o <<"review">> \o orch.results[4].value

C20_Witness ==
    /\ orch.pc = "done"
    /\ orch.report_type = "industry"
    /\ orch.executed = <<"ResearchAgent", "AnalysisAgent">>
    /\ orch.results[2].raised /\ orch.raised = Exc("Exception", <<"analysis", "failed">>)
    /\ orch.ret = None

\* C21: MarketDataCollector.validate(data) returns False whenever the market
\* data violates one of high >= low, high >= open, high >= close,
\* low <= open, low <= close, volume >= 0.
C21_MarketInequalities ==
    (market.called /\ market.data.shape = "complete"
        /\ \/ market.data.high < market.data.low
           \/ market.data.high < market.data.open
           \/ market.data.high < market.data.close
           \/ market.data.low > market.data.open
           \/ market.data.low > market.data.close
           \/ market.data.volume < 0) =>
        market.ret = FALSE

\* C22: update_state is the only mutator of agent.state: in every operation
\* of every agent, cleanup included, a change of agent.state is made through
\* update_state, so that the state handler registered for the new state is
\* invoked with the state before the operation and the new state.
C22_StateChangesThroughUpdateState ==
    (last.op \in {"execute", "validate", "update_state", "log_error", "cleanup"}
        /\ state # last.before) =>
        \E i \in 1..Len(calls) :
            /\ calls[i].old = last.before
            /\ calls[i].new = state
            /\ calls[i].handler = state_handlers[state]

\* C23: update_state(new) invokes exactly one state handler, the one
\* registered for the new state, once, with (old, new), when agent.state is
\* already new; the handler registered for the old state is not invoked; when
\* no handler is registered for the new state nothing is invoked and the
\* state is set all the same.
C23_HandlerOfNewState ==
    last.op = "update_state" =>
        /\ state = last.arg
        /\ state_handlers[last.arg] = "none" => calls = <<>>
        /\ state_handlers[last.arg] # "none" =>
              calls = << [handler |-> state_handlers[last.arg], old |-> last.before,
                          new |-> last.arg, at |-> last.arg] >>

C23_Witness ==
    /\ last.op = "update_state"
    /\ last.before = "ERROR" /\ last.arg = "RUNNING" /\ state = "RUNNING"
    /\ state_handlers["ERROR"] = "_handle_error_state"
    /\ state_handlers["RUNNING"] = "on_state"
    /\ Len(calls) = 1 /\ calls[1].handler = "on_state"

\* C24: the registries hold at most one handler per key and the last
\* registration wins: a registration replaces the handler of its key and
\* leaves every other key and the other registry as they were, and
\* handle_message(msg) enters the handler the registry holds for msg.type and
\* no other (none when there is no entry).
C24_LastRegistrationWins ==
    [][ /\ last'.op = "register_message_handler" =>
              /\ message_handlers'[last'.arg] = last'.ret[1]
              /\ \A t \in MessageType \ {last'.arg} :
                    message_handlers'[t] = message_handlers[t]
              /\ state_handlers' = state_handlers
        /\ last'.op = "register_state_handler" =>
              /\ state_handlers'[last'.arg] = last'.ret[1]
              /\ \A s \in AgentState \ {last'.arg} : state_handlers'[s] = state_handlers[s]
              /\ message_handlers' = message_handlers
        /\ last'.op = "protocol.handle_message" =>
              /\ last'.handler = message_handlers[last'.msg.type]
              /\ message_handlers' = message_handlers
              /\ state_handlers' = state_handlers
      ]_vars

C24_Witness ==
    /\ last.op = "protocol.handle_message"
    /\ last.msg.type = "COMMAND" /\ last.handler = "on_message"
    /\ message_handlers["COMMAND"] = "on_message"
    /\ message_handlers["STATUS"] = "_handle_status_message"

\* the type of the message has no handler where the call looks for one: the
\* dict of ResearchAgent for handle_message, the registry of the protocol for
\* the protocol's dispatch
NoHandlerFor(op, type) ==
    \/ op = "handle_message" /\ kind = "ResearchAgent"
          /\ type \notin {"TASK", "REQUEST", "COMMAND", "ERROR"}
    \/ op = "protocol.handle_message"
          /\ (type \in DOMAIN message_handlers => message_handlers[type] = "none")

\* C25: handling a message whose type has no registered handler is a no-op
\* that does not fail: no handler is entered, no state handler is invoked, no
\* message is sent, the queue and agent.state are unchanged, and nothing is
\* raised (A2AProtocol.handle_message, and ResearchAgent.handle_message with
\* an unsupported type).
C25_UnhandledTypeNoOp ==
    [][ NoHandlerFor(last'.op, last'.msg.type) =>
            /\ last'.handler = "none"
            /\ last'.raised = NoExc
            /\ sent' = <<>> /\ calls' = <<>>
            /\ messages' = messages /\ pushed' = pushed /\ nextId' = nextId
            /\ state' = state
      ]_vars

C25_Witness ==
    /\ last.op = "handle_message" /\ kind = "ResearchAgent"
    /\ last.msg.type = "UNSUPPORTED" /\ last.handler = "none"
    /\ last.raised = NoExc /\ last.before = "RUNNING" /\ state = "RUNNING"

\* C26: under every sequence of push, pop, peek, size, is_empty and clear
\* the queue behaves as a reference FIFO sequence: its content is the
\* reference sequence, in push order; pop returns and removes the earliest
\* message still present, peek returns it and removes nothing, size is the
\* number of messages present, is_empty tells whether there is none; pop and
\* peek on an empty queue return no message and leave it empty; nothing is
\* raised.
C26_QueueIsFifo ==
    [][ /\ messages' = ref'
        /\ \A i, j \in 1..Len(messages') : i < j => messages'[i].id < messages'[j].id
        /\ last'.raised = NoExc
        /\ last'.op = "pop" =>
              /\ last'.ret = (IF ref = <<>> THEN None ELSE <<Head(ref)>>)
              /\ Len(messages') = (IF ref = <<>> THEN 0 ELSE Len(ref) - 1)
        /\ last'.op = "peek" =>
              /\ last'.ret = (IF ref = <<>> THEN None ELSE <<Head(ref)>>)
              /\ messages' = messages
        /\ last'.op = "size" => (last'.ret = <<Len(ref)>> /\ messages' = messages)
        /\ last'.op = "is_empty" => (last'.ret = <<ref = <<>>>> /\ messages' = messages)
        /\ last'.op = "clear" => messages' = <<>>
      ]_vars

C26_Witness ==
    /\ last.op = "pop" /\ Len(last.ret) = 1
    /\ last.ret[1].id = 1 /\ Len(messages) = 2
    /\ messages[1].id = 2 /\ messages[2].id = 3
    /\ messages[1].sender # messages[2].sender

\* C27: clear_receive(agent_id) removes all and only the messages whose
\* sender is agent_id: afterwards receive(agent_id) and
\* peek_receive(agent_id) return no message, and the messages of every other
\* sender are still in the queue, in their original relative order.
C27_ClearReceiveOnlyThatSender ==
    [][ last'.op = "clear_receive" =>
          /\ \A i \in 1..Len(messages') : messages'[i].sender # last'.arg
          /\ receive(messages', last'.arg).ret = None
          /\ peek_receive(messages', last'.arg) = None
          /\ messages' = SelectSeq(messages, LAMBDA m : m.sender # last'.arg)
      ]_vars

C27_Witness ==
    /\ last.op = "clear_receive"
    /\ nextId = 4 /\ received = <<>>
    /\ Len(messages) = 1 /\ messages[1].id = 2
    /\ messages[1].sender # last.arg

\* what two receives, of a and then of b, return and leave
TwoReceives(q, a, b) ==
    LET r1 == receive(q, a)
        r2 == receive(r1.q, b)
    IN  [of_a |-> r1.ret, of_b |-> r2.ret, q |-> r2.q]

\* C28: messages of different senders do not contend for ordering: on every
\* queue content, receive(a) followed by receive(b) returns the same two
\* messages and leaves the same queue as receive(b) followed by receive(a),
\* and pushing or receiving a message of sender b never changes which
\* message the next receive(a) returns.
C28_SendersIndependent ==
    [][ /\ \A a, b \in QueueSenders : a # b =>
              LET ab == TwoReceives(messages', a, b)
                  ba == TwoReceives(messages', b, a)
              IN  ab.of_a = ba.of_b /\ ab.of_b = ba.of_a /\ ab.q = ba.q
        /\ last'.op \in {"push", "receive"} =>
              \A a \in QueueSenders \ {last'.arg} :
                  receive(messages', a).ret = receive(messages, a).ret
      ]_vars

C28_Witness ==
    /\ last.op = "receive"
    /\ Len(received) = 2
    /\ received[1].id = 2 /\ received[2].id = 1
    /\ received[1].sender # received[2].sender
    /\ last.ret = <<received[2]>>
    /\ Len(messages) = 1 /\ messages[1].id = 3

\* C30: receive(agent_id) changes the queue only by removing the message it
\* returns: when it returns a message the queue is one shorter and the
\* remaining messages keep their relative order, when it returns none the
\* queue is unchanged; peek_receive(agent_id) never changes the queue and
\* returns the message the next receive(agent_id) would return.
C30_ReceiveRemovesOnlyReturned ==
    [][ /\ last'.op = "receive" =>
              IF last'.ret = None THEN messages' = messages
              ELSE /\ Len(messages') = Len(messages) - 1
                   /\ \E i \in 1..Len(messages) :
                        /\ messages[i] = last'.ret[1]
                        /\ messages' = SubSeq(messages, 1, i - 1) \o SubSeq(messages, i + 1, Len(messages))
        /\ last'.op = "peek_receive" =>
              /\ messages' = messages
              /\ last'.ret = receive(messages, last'.arg).ret
      ]_vars

C30_Witness ==
    /\ last.op = "peek_receive"
    /\ Len(messages) = 3
    /\ last.ret = <<messages[2]>>
    /\ messages[3].sender = last.arg
    /\ messages[1].sender # last.arg

\* C29: validate has an effect when it fails: when _validate_impl raised,
\* validate returns False and the agent is in state ERROR, set through
\* log_error (the handler of ERROR runs once, with the prior state), whatever
\* the prior state; when _validate_impl returned, true or false, validate
\* leaves the state and the queue of the agent as they were.
C29_ValidateFailureSetsError ==
    [][ last'.op = "validate" =>
          IF last'.exec.raised
          THEN /\ last'.ret = <<FALSE>>
               /\ state' = "ERROR"
               /\ Len(calls') = 1
               /\ calls'[1].new = "ERROR" /\ calls'[1].old = state
          ELSE /\ last'.ret \in {<<TRUE>>, <<FALSE>>}
               /\ state' = state
               /\ messages' = messages
               /\ calls' = <<>>
      ]_vars

C29_Witness ==
    /\ last.op = "validate" /\ last.exec.raised
    /\ last.before = "COMPLETED" /\ state = "ERROR"
    /\ last.ret = <<FALSE>>

====
